---- MODULE Spec2Model ----
(***************************************************************************)
(* Model of the frame-sampling engine of tanaw-tool:                       *)
(*   logic/histogram_extractor.py  extract_histogram_based                 *)
(*   logic/gps_extractor.py        extract_gps_based                       *)
(* One behaviour is one call of one of the two functions.  A video is the  *)
(* sequence of its frames; a frame is represented by the identity of its   *)
(* 256-bin grayscale histogram.  Histogram distances and thresholds are    *)
(* in tenths (10 is the Bhattacharyya distance 1.0).  Arithmetic is exact  *)
(* (rational), where the program uses IEEE doubles.                        *)
(***************************************************************************)
EXTENDS Integers, Sequences, FiniteSets, TLC

\* ------------------------------------------------------------------ bounds
MaxFrames == 6
MaxTarget == 2
ScenarioLen == 100
MaxPoints == 3
MaxImages == 2
MaxCalls == 2
NormSteps == 4
MaxVideos == 4
MaxBatches == 2
MaxEmit == 1
BATCH_SIZE == 500
MaxOver == 2
MaxRegions == 2
MaxClicks == 2
MaxReview == 3
MaxOps == 5

\* ------------------------------------------------------- program constants
FallbackFps == 25
KmToM == 1000

VARIABLES
    \* extract_histogram_based: arguments and the video behind cap
    h_video, h_target, h_speed, h_threshold, h_fps,
    \* extract_histogram_based: locals
    h_pc, h_cap_open, h_cap_pos, min_frame_gap, frame_counter,
    keyframe_counter, prev_hist, last_keyframe_idx, h_saved, h_ret,
    \* extract_gps_based: the GPX file, arguments and the video behind cap
    g_parse_ok, g_points, g_interval, g_fps, g_nframes,
    \* extract_gps_based: locals; g_frame_nums keeps the frame_num of every
    \* iteration and g_seeks the frame indices handed to cap.set
    g_pc, g_cap_open, distances, timestamps, query_distances, query_times,
    g_idx, last_frame_num, g_frame_nums, g_seeks, g_saved, g_ret,
    \* anonymize_images: the input folder (sorted by name; a file's name is its
    \* index) and the output folder: images written, annot_txt, pred/labels
    a_files, a_out, a_sidecar, a_labels,
    \* anonymize_images: locals; a_calls counts the calls made on the folders,
    \* a_written the images the call at hand has written
    a_pc, a_calls, a_dims, a_i, processed_count, a_written, a_ret,
    \* one box taken through the two coordinate conversions and back
    t_dir, t_pc, t_size, t_in, t_mid, t_out,
    \* one job started from the GUI (main.py)
    j_kind, j_has_input, j_method, j_videos, j_total, j_jpeg, j_button, j_pc,
    j_video_idx, j_batch_num, j_processed, j_temp, j_outputs, j_emitted,
    j_callbacks, j_error, j_after,
    \* one call of anonymize(image, regions), pixel by pixel
    b_size, b_pc, b_k, b_region, b_changed, b_inside,
    \* the pre-annotation button and its process_detection workers
    d_open, d_has_input, d_clicks, d_workers, d_ended,
    \* the review tab: the list shown and the position in it
    r_open, anonymized_images, current_img_idx, r_op, r_prev_idx, r_ops

hvars == <<h_video, h_target, h_speed, h_threshold, h_fps,
           h_pc, h_cap_open, h_cap_pos, min_frame_gap, frame_counter,
           keyframe_counter, prev_hist, last_keyframe_idx, h_saved, h_ret>>

gvars == <<g_parse_ok, g_points, g_interval, g_fps, g_nframes,
           g_pc, g_cap_open, distances, timestamps, query_distances, query_times,
           g_idx, last_frame_num, g_frame_nums, g_seeks, g_saved, g_ret>>

avars == <<a_files, a_out, a_sidecar, a_labels,
           a_pc, a_calls, a_dims, a_i, processed_count, a_written, a_ret>>

tvars == <<t_dir, t_pc, t_size, t_in, t_mid, t_out>>

jvars ==
    <<j_kind, j_has_input, j_method, j_videos, j_total, j_jpeg, j_button, j_pc,
      j_video_idx, j_batch_num, j_processed, j_temp, j_outputs, j_emitted,
      j_callbacks, j_error, j_after>>

bvars == <<b_size, b_pc, b_k, b_region, b_changed, b_inside>>

dvars == <<d_open, d_has_input, d_clicks, d_workers, d_ended>>

rvars == <<r_open, anonymized_images, current_img_idx, r_op, r_prev_idx, r_ops>>

vars == <<hvars, gvars, avars, tvars, jvars, bvars, dvars, rvars>>

\* what the actions of one component leave alone
notH == <<gvars, avars, tvars, jvars, bvars, dvars, rvars>>
notG == <<hvars, avars, tvars, jvars, bvars, dvars, rvars>>
notA == <<hvars, gvars, tvars, jvars, bvars, dvars, rvars>>
notT == <<hvars, gvars, avars, jvars, bvars, dvars, rvars>>
notJ == <<hvars, gvars, avars, tvars, bvars, dvars, rvars>>
notB == <<hvars, gvars, avars, tvars, jvars, dvars, rvars>>
notD == <<hvars, gvars, avars, tvars, jvars, bvars, rvars>>
notR == <<hvars, gvars, avars, tvars, jvars, bvars, dvars>>

\* ----------------------------------------------------------------- helpers
Max(a, b) == IF a >= b THEN a ELSE b

\* int(n / d) for d > 0: truncation toward zero
TruncDiv(n, d) == IF n >= 0 THEN n \div d ELSE -((-n) \div d)

\* math.ceil(n / d) for d > 0
CeilDiv(n, d) == IF n >= 0 THEN (n + d - 1) \div d ELSE -((-n) \div d)

SeqsUpTo(S, n) == UNION {[1..k -> S] : k \in 0..n}

\* The value a function hands back: (frames, error).  isNone says that the
\* first component is None; err = "None" says that the second one is.
Returned(frames, msg) == [isNone |-> FALSE, frames |-> frames, err |-> msg]
ReturnedError(msg) == [isNone |-> TRUE, frames |-> <<>>, err |-> msg]
NoReturn == [isNone |-> TRUE, frames |-> <<>>, err |-> "not returned"]

\* ------------------------------------------------ histogram-based extractor
HistIds == {0, 1, 2}
Thresholds == {0, 5, 10, 11}
Speeds == {0, 60, 90}
FpsValues == {0, 50}

\* cv2.compareHist(prev_hist, curr_hist, HISTCMP_BHATTACHARYYA), in tenths:
\* 0 for equal histograms, symmetric, at most 10.
compareHist(a, b) ==
    IF a = b THEN 0
    ELSE IF {a, b} = {0, 1} THEN 3
    ELSE IF {a, b} = {0, 2} THEN 9
    ELSE 10

\* fps <= 0 is replaced by the fallback
EffectiveFps(fps) == IF fps <= 0 THEN FallbackFps ELSE fps

\* speed_mps = speed_kph * 1000 / 3600; distance_per_frame = speed_mps / fps;
\* max(1, ceil(target / distance_per_frame)), for speed_kph > 0
MinFrameGap(target, speed, fps) ==
    Max(1, CeilDiv(target * 3600 * fps, speed * 1000))

\* the two halves of the selection condition of line 58, and plausible slips
ExceedsThreshold_AtLeast(diff, threshold) == diff >= threshold
ExceedsThreshold_Inverted(diff, threshold) == diff < threshold
ExceedsThreshold(diff, threshold) == diff > threshold
GapReached_OneShort(counter, last, gap) == (counter - last) >= gap - 1
GapReached(counter, last, gap) == (counter - last) >= gap

InitHistLocals ==
    /\ h_pc = "start"
    /\ h_cap_open = FALSE
    /\ h_cap_pos = 0
    /\ min_frame_gap = 0
    /\ frame_counter = 0
    /\ keyframe_counter = 0
    /\ prev_hist = 0
    /\ last_keyframe_idx = 0
    /\ h_saved = <<>>
    /\ h_ret = NoReturn

\* the spec's scenario: ScenarioLen identical frames, then one at distance 0.9
ScenarioVideo == [i \in 1..(ScenarioLen + 1) |-> IF i <= ScenarioLen THEN 0 ELSE 2]

HistIdle ==
    /\ h_video = <<>>
    /\ h_target = 0
    /\ h_speed = 0
    /\ h_threshold = 0
    /\ h_fps = 0
    /\ h_pc = "idle"
    /\ h_cap_open = FALSE
    /\ h_cap_pos = 0
    /\ min_frame_gap = 0
    /\ frame_counter = 0
    /\ keyframe_counter = 0
    /\ prev_hist = 0
    /\ last_keyframe_idx = 0
    /\ h_saved = <<>>
    /\ h_ret = NoReturn

InitHistArgs ==
    /\ \/ /\ h_video \in SeqsUpTo(HistIds, MaxFrames)
          /\ h_target \in 0..MaxTarget
          /\ h_speed \in Speeds
          /\ h_threshold \in Thresholds
          /\ h_fps \in FpsValues
       \/ /\ h_video = ScenarioVideo
          /\ h_target = 1
          /\ h_speed = 90
          /\ h_threshold = 5
          /\ h_fps = 25
    /\ InitHistLocals

\* lines 22-26: the first read fails; the function returns without releasing
HistOpenFail ==
    /\ h_pc = "start"
    /\ Len(h_video) = 0
    /\ h_cap_open' = TRUE
    /\ h_ret' = ReturnedError("Cannot read video file")
    /\ h_pc' = "done"
    /\ UNCHANGED <<h_video, h_target, h_speed, h_threshold, h_fps, h_cap_pos,
                   min_frame_gap, frame_counter, keyframe_counter, prev_hist,
                   last_keyframe_idx, h_saved>>
    /\ UNCHANGED notH

\* lines 22-35 with speed_kph = 0: target / distance_per_frame divides by zero
HistOpenRaise ==
    /\ h_pc = "start"
    /\ Len(h_video) > 0
    /\ h_speed = 0
    /\ h_cap_open' = TRUE
    /\ h_cap_pos' = 1
    /\ h_pc' = "raised"
    /\ UNCHANGED <<h_video, h_target, h_speed, h_threshold, h_fps,
                   min_frame_gap, frame_counter, keyframe_counter, prev_hist,
                   last_keyframe_idx, h_saved, h_ret>>
    /\ UNCHANGED notH

\* lines 22-47: the first frame is read and becomes the reference
HistOpen ==
    /\ h_pc = "start"
    /\ Len(h_video) > 0
    /\ h_speed # 0
    /\ h_cap_open' = TRUE
    /\ h_cap_pos' = 1
    /\ min_frame_gap' = MinFrameGap(h_target, h_speed, EffectiveFps(h_fps))
    /\ frame_counter' = 0
    /\ keyframe_counter' = 0
    /\ prev_hist' = h_video[1]
    /\ last_keyframe_idx' = 0
    /\ h_saved' = <<>>
    /\ h_pc' = "scan"
    /\ UNCHANGED <<h_video, h_target, h_speed, h_threshold, h_fps, h_ret>>
    /\ UNCHANGED notH

\* the frame the next cap.read() yields (h_cap_pos is its position in the video)
CurrHist == h_video[h_cap_pos + 1]
Scanning == h_pc = "scan" /\ h_cap_pos < Len(h_video)
Selected ==
    /\ ExceedsThreshold(compareHist(prev_hist, CurrHist), h_threshold)
    /\ GapReached(frame_counter, last_keyframe_idx, min_frame_gap)

\* lines 50-68, the condition of line 58 true: the frame is written
HistEmit ==
    /\ Scanning
    /\ Selected
    /\ h_saved' = Append(h_saved, [seq |-> keyframe_counter, frame |-> h_cap_pos])
    /\ keyframe_counter' = keyframe_counter + 1
    /\ prev_hist' = CurrHist
    /\ last_keyframe_idx' = frame_counter
    /\ frame_counter' = frame_counter + 1
    /\ h_cap_pos' = h_cap_pos + 1
    /\ UNCHANGED <<h_video, h_target, h_speed, h_threshold, h_fps, h_pc,
                   h_cap_open, min_frame_gap, h_ret>>
    /\ UNCHANGED notH

\* lines 50-68, the condition of line 58 false (first with the reference
\* following every frame read, as prev_gray does on line 67)
HistSkip_ReferenceFollows ==
    /\ Scanning
    /\ ~Selected
    /\ frame_counter' = frame_counter + 1
    /\ h_cap_pos' = h_cap_pos + 1
    /\ prev_hist' = CurrHist
    /\ UNCHANGED <<h_video, h_target, h_speed, h_threshold, h_fps, h_pc,
                   h_cap_open, min_frame_gap, keyframe_counter,
                   last_keyframe_idx, h_saved, h_ret>>
    /\ UNCHANGED notH
HistSkip ==
    /\ Scanning
    /\ ~Selected
    /\ frame_counter' = frame_counter + 1
    /\ h_cap_pos' = h_cap_pos + 1
    /\ UNCHANGED <<h_video, h_target, h_speed, h_threshold, h_fps, h_pc,
                   h_cap_open, min_frame_gap, keyframe_counter, prev_hist,
                   last_keyframe_idx, h_saved, h_ret>>
    /\ UNCHANGED notH

\* lines 50-52, 70-71: end of stream, release and return
HistReturn ==
    /\ h_pc = "scan"
    /\ h_cap_pos = Len(h_video)
    /\ h_cap_open' = FALSE
    /\ h_ret' = Returned(h_saved, "None")
    /\ h_pc' = "done"
    /\ UNCHANGED <<h_video, h_target, h_speed, h_threshold, h_fps, h_cap_pos,
                   min_frame_gap, frame_counter, keyframe_counter, prev_hist,
                   last_keyframe_idx, h_saved>>
    /\ UNCHANGED notH

NextHist ==
    \/ HistOpenFail
    \/ HistOpenRaise
    \/ HistOpen
    \/ HistEmit
    \/ HistSkip
    \/ HistReturn

\* ------------------------------------------------------ GPS-based extractor
Positions == {0, 1, 2}
Times == {0, 2}
Intervals == {0, 600, 1000}
GpsFpsValues == {0, 2, 3}
VideoLengths == {0, 4}

\* a waypoint: position along a meridian (km), and point.time (seconds), which
\* gpxpy leaves None for a point without a <time> element
Waypoints ==
    {[pos |-> p, time |-> t, timed |-> TRUE] : p \in Positions, t \in Times}
        \cup {[pos |-> p, time |-> 0, timed |-> FALSE] : p \in Positions}

\* haversine(a, b), in km
haversine_Signed(a, b) == b.pos - a.pos
haversine(a, b) == IF a.pos >= b.pos THEN a.pos - b.pos ELSE b.pos - a.pos

\* lines 38-43: distances[i], the cumulative distance in metres
RECURSIVE CumulativeDistance(_, _)
CumulativeDistance(points, i) ==
    IF i = 1 THEN 0
    ELSE CumulativeDistance(points, i - 1)
            + haversine(points[i - 1], points[i]) * KmToM

\* np.arange(0, stop, step) for step > 0: ceil(stop / step) values from 0
Arange_Inclusive(stop, step) ==
    [k \in 1..(IF stop > 0 THEN stop \div step + 1 ELSE 0) |-> (k - 1) * step]
Arange(stop, step) ==
    [k \in 1..(IF stop > 0 THEN CeilDiv(stop, step) ELSE 0) |-> (k - 1) * step]

\* np.interp(x, xp, fp) for xp[1] <= x and non-decreasing xp: the last j with
\* xp[j] <= x; fp[j] if x = xp[j] or j is the last entry, else the value on
\* the line through (xp[j], fp[j]) and (xp[j+1], fp[j+1]), as num / den
Interp(x, xp, fp) ==
    LET j == CHOOSE i \in 1..Len(xp) :
                 /\ xp[i] <= x
                 /\ \A k \in 1..Len(xp) : xp[k] <= x => k <= i
    IN  IF j = Len(xp) \/ xp[j] = x
        THEN [num |-> fp[j], den |-> 1]
        ELSE [num |-> fp[j] * (xp[j + 1] - xp[j])
                        + (fp[j + 1] - fp[j]) * (x - xp[j]),
              den |-> xp[j + 1] - xp[j]]

\* fps * (sec - first) as numerator and denominator
ScaledNum(fps, sec, first) == fps * (sec.num * first.den - first.num * sec.den)
ScaledDen(sec, first) == sec.den * first.den

\* round(n / d) for d > 0, as Python rounds (ties to even)
RoundDiv(n, d) ==
    LET f == IF n >= 0 THEN n \div d ELSE -(((-n) + d - 1) \div d)
        r == n - f * d
    IN  IF 2 * r < d THEN f
        ELSE IF 2 * r > d THEN f + 1
        ELSE IF f % 2 = 0 THEN f ELSE f + 1

\* line 63: int(fps * (sec - query_times[0]))
FrameNum_Rounded(fps, sec, first) ==
    RoundDiv(ScaledNum(fps, sec, first), ScaledDen(sec, first))
FrameNum(fps, sec, first) ==
    TruncDiv(ScaledNum(fps, sec, first), ScaledDen(sec, first))

\* line 66: frame_num == last_frame_num (last is <<>> for None)
IsDuplicate_Never(frame_num, last) == FALSE
IsDuplicate(frame_num, last) == last = <<frame_num>>

GpsIdle ==
    /\ g_parse_ok = FALSE
    /\ g_points = <<>>
    /\ g_interval = 0
    /\ g_fps = 0
    /\ g_nframes = 0
    /\ g_pc = "idle"
    /\ g_cap_open = FALSE
    /\ distances = <<>>
    /\ timestamps = <<>>
    /\ query_distances = <<>>
    /\ query_times = <<>>
    /\ g_idx = 0
    /\ last_frame_num = <<>>
    /\ g_frame_nums = <<>>
    /\ g_seeks = <<>>
    /\ g_saved = <<>>
    /\ g_ret = NoReturn

InitGpsArgs ==
    /\ \/ g_parse_ok = TRUE /\ g_points \in SeqsUpTo(Waypoints, MaxPoints)
       \/ g_parse_ok = FALSE /\ g_points = <<>>
    /\ g_interval \in Intervals
    /\ g_fps \in GpsFpsValues
    /\ g_nframes \in VideoLengths
    /\ g_pc = "start"
    /\ g_cap_open = FALSE
    /\ distances = <<>>
    /\ timestamps = <<>>
    /\ query_distances = <<>>
    /\ query_times = <<>>
    /\ g_idx = 0
    /\ last_frame_num = <<>>
    /\ g_frame_nums = <<>>
    /\ g_seeks = <<>>
    /\ g_saved = <<>>
    /\ g_ret = NoReturn

\* lines 22-26: gpxpy.parse raises, the error is returned
GpsParseFail ==
    /\ g_pc = "start"
    /\ ~g_parse_ok
    /\ g_ret' = ReturnedError("Error parsing GPX file")
    /\ g_pc' = "done"
    /\ UNCHANGED <<g_parse_ok, g_points, g_interval, g_fps, g_nframes,
                   g_cap_open, distances, timestamps, query_distances,
                   query_times, g_idx, last_frame_num, g_frame_nums, g_seeks,
                   g_saved>>
    /\ UNCHANGED notG

\* lines 28-35: no point in any segment
GpsNoPoints ==
    /\ g_pc = "start"
    /\ g_parse_ok
    /\ g_points = <<>>
    /\ g_ret' = ReturnedError("No GPS points found in GPX file")
    /\ g_pc' = "done"
    /\ UNCHANGED <<g_parse_ok, g_points, g_interval, g_fps, g_nframes,
                   g_cap_open, distances, timestamps, query_distances,
                   query_times, g_idx, last_frame_num, g_frame_nums, g_seeks,
                   g_saved>>
    /\ UNCHANGED notG

TableOf(points) == [i \in 1..Len(points) |-> CumulativeDistance(points, i)]
StampsOf(points) == [i \in 1..Len(points) |-> points[i].time]

\* lines 37-46 raise: np.arange with a zero step, or t.timestamp() on None
GpsTableRaise ==
    /\ g_pc = "start"
    /\ g_parse_ok
    /\ g_points # <<>>
    /\ \/ g_interval = 0
       \/ \E i \in 1..Len(g_points) : ~g_points[i].timed
    /\ distances' = TableOf(g_points)
    /\ timestamps' = StampsOf(g_points)
    /\ g_pc' = "raised"
    /\ UNCHANGED <<g_parse_ok, g_points, g_interval, g_fps, g_nframes,
                   g_cap_open, query_distances, query_times, g_idx,
                   last_frame_num, g_frame_nums, g_seeks, g_saved, g_ret>>
    /\ UNCHANGED notG

\* lines 37-46: the cumulative table, the query distances and their instants
GpsTable ==
    /\ g_pc = "start"
    /\ g_parse_ok
    /\ g_points # <<>>
    /\ g_interval # 0
    /\ \A i \in 1..Len(g_points) : g_points[i].timed
    /\ distances' = TableOf(g_points)
    /\ timestamps' = StampsOf(g_points)
    /\ query_distances' = Arange(distances'[Len(distances')], g_interval)
    /\ query_times' = [k \in 1..Len(query_distances') |->
                          Interp(query_distances'[k], distances', timestamps')]
    /\ g_pc' = "table"
    /\ UNCHANGED <<g_parse_ok, g_points, g_interval, g_fps, g_nframes,
                   g_cap_open, g_idx, last_frame_num, g_frame_nums, g_seeks,
                   g_saved, g_ret>>
    /\ UNCHANGED notG

\* lines 49-54: fps <= 0, release and return the error
GpsOpenNoFps ==
    /\ g_pc = "table"
    /\ g_fps <= 0
    /\ g_cap_open' = FALSE
    /\ g_ret' = ReturnedError("Could not determine video FPS")
    /\ g_pc' = "done"
    /\ UNCHANGED <<g_parse_ok, g_points, g_interval, g_fps, g_nframes,
                   distances, timestamps, query_distances, query_times, g_idx,
                   last_frame_num, g_frame_nums, g_seeks, g_saved>>
    /\ UNCHANGED notG

\* lines 49-60
GpsOpen ==
    /\ g_pc = "table"
    /\ g_fps > 0
    /\ g_cap_open' = TRUE
    /\ g_saved' = <<>>
    /\ last_frame_num' = <<>>
    /\ g_idx' = 0
    /\ g_pc' = "loop"
    /\ UNCHANGED <<g_parse_ok, g_points, g_interval, g_fps, g_nframes,
                   distances, timestamps, query_distances, query_times,
                   g_frame_nums, g_seeks, g_ret>>
    /\ UNCHANGED notG

Looping == g_pc = "loop" /\ g_idx < Len(query_times)
\* frame_num of the iteration at hand (idx is g_idx, counted from 0)
CurrFrameNum == FrameNum(g_fps, query_times[g_idx + 1], query_times[1])

\* lines 62-67: same frame as the iteration before, nothing is read
GpsDuplicate ==
    /\ Looping
    /\ IsDuplicate(CurrFrameNum, last_frame_num)
    /\ g_frame_nums' = Append(g_frame_nums, CurrFrameNum)
    /\ g_idx' = g_idx + 1
    /\ UNCHANGED <<g_parse_ok, g_points, g_interval, g_fps, g_nframes, g_pc,
                   g_cap_open, distances, timestamps, query_distances,
                   query_times, last_frame_num, g_seeks, g_saved, g_ret>>
    /\ UNCHANGED notG

\* cap.set(CAP_PROP_POS_FRAMES, n); cap.read(): a frame of the video is read;
\* past the end the read fails; what a negative position does is the backend's
ReadOutcomes(n, nframes) ==
    IF n < 0 THEN {TRUE, FALSE}
    ELSE IF n < nframes THEN {TRUE} ELSE {FALSE}

\* lines 62-75: seek and read succeed, the frame is written
GpsWrite ==
    /\ Looping
    /\ ~IsDuplicate(CurrFrameNum, last_frame_num)
    /\ TRUE \in ReadOutcomes(CurrFrameNum, g_nframes)
    /\ g_frame_nums' = Append(g_frame_nums, CurrFrameNum)
    /\ last_frame_num' = <<CurrFrameNum>>
    /\ g_seeks' = Append(g_seeks, CurrFrameNum)
    /\ g_saved' = Append(g_saved, [seq |-> g_idx, frame |-> CurrFrameNum])
    /\ g_idx' = g_idx + 1
    /\ UNCHANGED <<g_parse_ok, g_points, g_interval, g_fps, g_nframes, g_pc,
                   g_cap_open, distances, timestamps, query_distances,
                   query_times, g_ret>>
    /\ UNCHANGED notG

\* lines 62-72: the read fails, nothing is written
GpsReadFail ==
    /\ Looping
    /\ ~IsDuplicate(CurrFrameNum, last_frame_num)
    /\ FALSE \in ReadOutcomes(CurrFrameNum, g_nframes)
    /\ g_frame_nums' = Append(g_frame_nums, CurrFrameNum)
    /\ last_frame_num' = <<CurrFrameNum>>
    /\ g_seeks' = Append(g_seeks, CurrFrameNum)
    /\ g_idx' = g_idx + 1
    /\ UNCHANGED <<g_parse_ok, g_points, g_interval, g_fps, g_nframes, g_pc,
                   g_cap_open, distances, timestamps, query_distances,
                   query_times, g_saved, g_ret>>
    /\ UNCHANGED notG

\* lines 77-78
GpsReturn ==
    /\ g_pc = "loop"
    /\ g_idx = Len(query_times)
    /\ g_cap_open' = FALSE
    /\ g_ret' = Returned(g_saved, "None")
    /\ g_pc' = "done"
    /\ UNCHANGED <<g_parse_ok, g_points, g_interval, g_fps, g_nframes,
                   distances, timestamps, query_distances, query_times, g_idx,
                   last_frame_num, g_frame_nums, g_seeks, g_saved>>
    /\ UNCHANGED notG

NextGps ==
    \/ GpsParseFail
    \/ GpsNoPoints
    \/ GpsTableRaise
    \/ GpsTable
    \/ GpsOpenNoFps
    \/ GpsOpen
    \/ GpsDuplicate
    \/ GpsWrite
    \/ GpsReadFail
    \/ GpsReturn

\* --------------------------------------------------------------- rationals
\* a float is modelled by the exact rational num / den, den > 0
Rat(n, d) == [num |-> n, den |-> d]
RMulInt(a, k) == Rat(a.num * k, a.den)
RDivInt(a, k) == Rat(a.num, a.den * k)
RAdd(a, b) == Rat(a.num * b.den + b.num * a.den, a.den * b.den)
RSub(a, b) == Rat(a.num * b.den - b.num * a.den, a.den * b.den)
REq(a, b) == a.num * b.den = b.num * a.den
\* round(a): Python rounds ties to even
RRound(a) == RoundDiv(a.num, a.den)

\* -------------------------------------------------------------- anonymizer
\* lines 6-23: normalized centre format to pixel corner format
yolo_to_voc_WidthForHeight(bbox, image_size) ==
    LET x_center == RMulInt(bbox.cx, image_size.w)
        y_center == RMulInt(bbox.cy, image_size.h)
        w == RMulInt(bbox.w, image_size.w)
        h == RMulInt(bbox.h, image_size.w)
    IN  [x_min |-> RSub(x_center, RDivInt(w, 2)),
         y_min |-> RSub(y_center, RDivInt(h, 2)),
         x_max |-> RAdd(x_center, RDivInt(w, 2)),
         y_max |-> RAdd(y_center, RDivInt(h, 2))]
yolo_to_voc(bbox, image_size) ==
    LET x_center == RMulInt(bbox.cx, image_size.w)
        y_center == RMulInt(bbox.cy, image_size.h)
        w == RMulInt(bbox.w, image_size.w)
        h == RMulInt(bbox.h, image_size.h)
    IN  [x_min |-> RSub(x_center, RDivInt(w, 2)),
         y_min |-> RSub(y_center, RDivInt(h, 2)),
         x_max |-> RAdd(x_center, RDivInt(w, 2)),
         y_max |-> RAdd(y_center, RDivInt(h, 2))]

\* a[lo:hi] on an axis of n entries, as numpy slices: a negative bound counts
\* from the end, bounds are clipped, the slice is empty if lo >= hi
SliceBound(b, n) == IF b < 0 THEN Max(b + n, 0) ELSE IF b > n THEN n ELSE b
SliceIndices(lo, hi, n) == SliceBound(lo, n)..(SliceBound(hi, n) - 1)

\* line 32: the pixels <<x, y>> of image[y1:y2, x1:x2]
Roi(region, size) ==
    SliceIndices(region.x_min, region.x_max, size.w)
        \X SliceIndices(region.y_min, region.y_max, size.h)

\* lines 166-168: the four values of a sidecar line, rounded to integers
RoundedBox(voc) ==
    [x_min |-> RRound(voc.x_min), y_min |-> RRound(voc.y_min),
     x_max |-> RRound(voc.x_max), y_max |-> RRound(voc.y_max)]

\* lines 25-35: cv2.GaussianBlur raises on an empty roi
AnonymizeRaises(regions, size) ==
    \E k \in 1..Len(regions) : Roi(regions[k], size) = {}
\* lines 25-35: the pixels the blur has written, when no roi is empty
AnonymizeBlurred(regions, size) ==
    UNION {Roi(regions[k], size) : k \in 1..Len(regions)}

\* image sizes, and the normalized boxes the detector reports
Sizes == {[w |-> 4, h |-> 4], [w |-> 8, h |-> 4]}
Box(cx, cy, w, h) == [cx |-> cx, cy |-> cy, w |-> w, h |-> h]
BoxMid == Box(Rat(1, 2), Rat(1, 2), Rat(1, 2), Rat(1, 2))
BoxThin == Box(Rat(1, 2), Rat(1, 2), Rat(1, 4), Rat(1, 2))
BoxEdge == Box(Rat(0, 1), Rat(1, 2), Rat(1, 2), Rat(1, 2))
BoxCorner == Box(Rat(1, 4), Rat(1, 4), Rat(1, 2), Rat(1, 2))
DetectionLists ==
    {<<>>, <<BoxMid>>, <<BoxThin>>, <<BoxEdge>>, <<BoxCorner>>,
     <<BoxMid, BoxCorner>>}

\* a file of the input folder: what cv2.imread makes of it, and what the
\* detector reports for it (nothing for a file it cannot read)
Unreadable == [readable |-> FALSE, size |-> [w |-> 0, h |-> 0], dets |-> <<>>]
ImageFiles ==
    {Unreadable} \cup
        {[readable |-> TRUE, size |-> s, dets |-> d] :
            s \in Sizes, d \in DetectionLists}

FileNames == 1..Len(a_files)
\* the value anonymize_images hands back: (count, error)
Counted(n, msg) == [count |-> n, err |-> msg]

AnonIdle ==
    /\ a_files = <<>>
    /\ a_out = <<>>
    /\ a_sidecar = <<>>
    /\ a_labels = <<>>
    /\ a_pc = "idle"
    /\ a_calls = 0
    /\ a_dims = [w |-> 0, h |-> 0]
    /\ a_i = 0
    /\ processed_count = 0
    /\ a_written = {}
    /\ a_ret = Counted(0, "not returned")

\* the output folder is empty before the first call
InitAnonArgs ==
    /\ a_files \in SeqsUpTo(ImageFiles, MaxImages)
    /\ a_out = <<>>
    /\ a_sidecar = <<>>
    /\ a_labels = <<>>
    /\ a_pc = "start"
    /\ a_calls = 1
    /\ a_dims = [w |-> 0, h |-> 0]
    /\ a_i = 0
    /\ processed_count = 0
    /\ a_written = {}
    /\ a_ret = Counted(0, "not returned")

\* a function over a set of file names, with one value added or replaced
Put(f, name, value) ==
    [n \in (DOMAIN f) \cup {name} |-> IF n = name THEN value ELSE f[n]]

\* lines 50-54: YOLO(model_path) raises
AnonLoadFail ==
    /\ a_pc = "start"
    /\ a_ret' = Counted(0, "Error loading model")
    /\ a_pc' = "done"
    /\ UNCHANGED <<a_files, a_out, a_sidecar, a_labels, a_calls, a_dims, a_i,
                   processed_count, a_written>>
    /\ UNCHANGED notA

\* lines 56-85: the detector raises; pred was removed before
AnonDetectFail ==
    /\ a_pc = "start"
    /\ a_labels' = <<>>
    /\ a_ret' = Counted(0, "Error during detection")
    /\ a_pc' = "done"
    /\ UNCHANGED <<a_files, a_out, a_sidecar, a_calls, a_dims, a_i,
                   processed_count, a_written>>
    /\ UNCHANGED notA

\* lines 56-90: pred is removed and the detector writes one label file for
\* every image it has detections for
AnonDetect ==
    /\ a_pc = "start"
    /\ a_labels' = [n \in {m \in FileNames : a_files[m].dets # <<>>} |->
                       a_files[n].dets]
    /\ a_pc' = "detected"
    /\ UNCHANGED <<a_files, a_out, a_sidecar, a_calls, a_dims, a_i,
                   processed_count, a_written, a_ret>>
    /\ UNCHANGED notA

\* lines 92-95
AnonNoImages ==
    /\ a_pc = "detected"
    /\ a_files = <<>>
    /\ a_ret' = Counted(0, "No images found in input folder")
    /\ a_pc' = "done"
    /\ UNCHANGED <<a_files, a_out, a_sidecar, a_labels, a_calls, a_dims, a_i,
                   processed_count, a_written>>
    /\ UNCHANGED notA

\* lines 92-99: the first file in sorted order cannot be read
AnonSampleUnreadable ==
    /\ a_pc = "detected"
    /\ a_files # <<>>
    /\ ~a_files[1].readable
    /\ a_ret' = Counted(0, "Could not read sample image")
    /\ a_pc' = "done"
    /\ UNCHANGED <<a_files, a_out, a_sidecar, a_labels, a_calls, a_dims, a_i,
                   processed_count, a_written>>
    /\ UNCHANGED notA

\* line 100: the size every box of the folder is converted with
SampleSize(files, n) == files[1].size

\* lines 117-127: the lines appended ("a") to the sidecar of label file n
SidecarAfter(old, boxes, size) ==
    old \o [k \in 1..Len(boxes) |-> yolo_to_voc(boxes[k], size)]

\* lines 92-137: the size of the first image, then every label file converted
AnonConvert ==
    /\ a_pc = "detected"
    /\ a_files # <<>>
    /\ a_files[1].readable
    /\ a_dims' = a_files[1].size
    /\ a_sidecar' =
          [n \in (DOMAIN a_sidecar) \cup (DOMAIN a_labels) |->
              IF n \in DOMAIN a_labels
              THEN SidecarAfter(IF n \in DOMAIN a_sidecar
                                    THEN a_sidecar[n] ELSE <<>>,
                                a_labels[n], SampleSize(a_files, n))
              ELSE a_sidecar[n]]
    /\ processed_count' = 0
    /\ a_i' = 0
    /\ a_written' = {}
    /\ a_pc' = "loop"
    /\ UNCHANGED <<a_files, a_out, a_labels, a_calls, a_ret>>
    /\ UNCHANGED notA

\* the image of the iteration at hand (its name is a_i + 1)
AtImage == a_pc = "loop" /\ a_i < Len(a_files)
CurrName == a_i + 1
CurrImage == a_files[CurrName]
\* lines 156-168: bboxes, empty when the image has no sidecar
CurrBoxes ==
    IF CurrName \in DOMAIN a_sidecar
    THEN [k \in 1..Len(a_sidecar[CurrName]) |->
             RoundedBox(a_sidecar[CurrName][k])]
    ELSE <<>>

\* lines 144-153: cv2.imread yields None
AnonSkipUnreadable ==
    /\ AtImage
    /\ ~CurrImage.readable
    /\ a_i' = a_i + 1
    /\ UNCHANGED <<a_files, a_out, a_sidecar, a_labels, a_pc, a_calls, a_dims,
                   processed_count, a_written, a_ret>>
    /\ UNCHANGED notA

\* lines 144-184: anonymize raises, the image is neither written nor counted
AnonImageError ==
    /\ AtImage
    /\ CurrImage.readable
    /\ AnonymizeRaises(CurrBoxes, CurrImage.size)
    /\ a_i' = a_i + 1
    /\ UNCHANGED <<a_files, a_out, a_sidecar, a_labels, a_pc, a_calls, a_dims,
                   processed_count, a_written, a_ret>>
    /\ UNCHANGED notA

\* lines 144-180: the image, blurred in its boxes, is written and counted
AnonWrite ==
    /\ AtImage
    /\ CurrImage.readable
    /\ ~AnonymizeRaises(CurrBoxes, CurrImage.size)
    /\ a_out' = Put(a_out, CurrName,
                    [size |-> CurrImage.size,
                     blurred |-> AnonymizeBlurred(CurrBoxes, CurrImage.size)])
    /\ a_written' = a_written \cup {CurrName}
    /\ processed_count' = processed_count + 1
    /\ a_i' = a_i + 1
    /\ UNCHANGED <<a_files, a_sidecar, a_labels, a_pc, a_calls, a_dims, a_ret>>
    /\ UNCHANGED notA

\* lines 186-187 (first with the number of files listed as the count)
AnonReturn_CountsListed ==
    /\ a_pc = "loop"
    /\ a_i = Len(a_files)
    /\ a_ret' = Counted(Len(a_files), "None")
    /\ a_pc' = "done"
    /\ UNCHANGED <<a_files, a_out, a_sidecar, a_labels, a_calls, a_dims, a_i,
                   processed_count, a_written>>
    /\ UNCHANGED notA
AnonReturn ==
    /\ a_pc = "loop"
    /\ a_i = Len(a_files)
    /\ a_ret' = Counted(processed_count, "None")
    /\ a_pc' = "done"
    /\ UNCHANGED <<a_files, a_out, a_sidecar, a_labels, a_calls, a_dims, a_i,
                   processed_count, a_written>>
    /\ UNCHANGED notA

\* anonymize_images is called again on the same folders
AnonCallAgain ==
    /\ a_pc = "done"
    /\ a_calls < MaxCalls
    /\ a_calls' = a_calls + 1
    /\ a_pc' = "start"
    /\ a_i' = 0
    /\ processed_count' = 0
    /\ a_written' = {}
    /\ a_ret' = Counted(0, "not returned")
    /\ UNCHANGED <<a_files, a_out, a_sidecar, a_labels, a_dims>>
    /\ UNCHANGED notA

NextAnon ==
    \/ AnonLoadFail
    \/ AnonDetectFail
    \/ AnonDetect
    \/ AnonNoImages
    \/ AnonSampleUnreadable
    \/ AnonConvert
    \/ AnonSkipUnreadable
    \/ AnonImageError
    \/ AnonWrite
    \/ AnonReturn
    \/ AnonCallAgain

\* ------------------------------------------------- coordinate conversions
\* main.py 1604-1608 and 1660-1664: pixel corners to centre and size, then
\* divided by the image width and height
VocToYolo(voc, image_size) ==
    LET cx == RDivInt(RAdd(voc.x_min, voc.x_max), 2)
        cy == RDivInt(RAdd(voc.y_min, voc.y_max), 2)
        w == RSub(voc.x_max, voc.x_min)
        h == RSub(voc.y_max, voc.y_min)
    IN  Box(RDivInt(cx, image_size.w), RDivInt(cy, image_size.h),
            RDivInt(w, image_size.w), RDivInt(h, image_size.h))

\* normalized boxes with 0 <= cx, cy, w, h <= 1, and pixel boxes of an image
NormCoords == {Rat(k, NormSteps) : k \in 0..NormSteps}
NormBoxes ==
    {Box(cx, cy, w, h) : cx \in NormCoords, cy \in NormCoords,
                         w \in NormCoords, h \in NormCoords}
TestSizes == Sizes \cup {[w |-> 3, h |-> 5]}
PixelBoxes(size) ==
    {[x_min |-> Rat(x1, 1), y_min |-> Rat(y1, 1),
      x_max |-> Rat(x2, 1), y_max |-> Rat(y2, 1)] :
        x1 \in 0..size.w, x2 \in 0..size.w, y1 \in 0..size.h, y2 \in 0..size.h}

BoxIdle ==
    /\ t_dir = "idle"
    /\ t_pc = "idle"
    /\ t_size = [w |-> 0, h |-> 0]
    /\ t_in = <<>>
    /\ t_mid = <<>>
    /\ t_out = <<>>

InitBoxArgs ==
    /\ t_size \in TestSizes
    /\ \/ t_dir = "yolo" /\ t_in \in NormBoxes
       \/ t_dir = "voc" /\ t_in \in PixelBoxes(t_size) /\ t_in.x_min.num <= t_in.x_max.num
                        /\ t_in.y_min.num <= t_in.y_max.num
    /\ t_pc = "start"
    /\ t_mid = <<>>
    /\ t_out = <<>>

\* a detection is converted for the sidecar (anonymizer.py line 122)
BoxToPixel ==
    /\ t_pc = "start"
    /\ t_dir = "yolo"
    /\ t_mid' = yolo_to_voc(t_in, t_size)
    /\ t_pc' = "converted"
    /\ UNCHANGED <<t_dir, t_size, t_in, t_out>>
    /\ UNCHANGED notT

\* the pixel box is normalized again as the annotation save path does
BoxBackToNormalized ==
    /\ t_pc = "converted"
    /\ t_dir = "yolo"
    /\ t_out' = VocToYolo(t_mid, t_size)
    /\ t_pc' = "done"
    /\ UNCHANGED <<t_dir, t_size, t_in, t_mid>>
    /\ UNCHANGED notT

\* a pixel box is normalized as the annotation save path does
BoxToNormalized ==
    /\ t_pc = "start"
    /\ t_dir = "voc"
    /\ t_mid' = VocToYolo(t_in, t_size)
    /\ t_pc' = "converted"
    /\ UNCHANGED <<t_dir, t_size, t_in, t_out>>
    /\ UNCHANGED notT

\* and converted to pixel corners again
BoxBackToPixel ==
    /\ t_pc = "converted"
    /\ t_dir = "voc"
    /\ t_out' = yolo_to_voc(t_mid, t_size)
    /\ t_pc' = "done"
    /\ UNCHANGED <<t_dir, t_size, t_in, t_mid>>
    /\ UNCHANGED notT

NextBox ==
    \/ BoxToPixel
    \/ BoxBackToNormalized
    \/ BoxToNormalized
    \/ BoxBackToPixel

\* ---------------------------------------------------------------- GUI jobs
\* parameter names of the three routines (their def lines) and the keyword
\* main.py adds to each call; a call with a keyword the def does not name
\* raises TypeError before the body runs
HistogramParams ==
    {"video_path", "output_dir", "target_distance_m", "speed_kph", "threshold"}
GpsParams == {"video_path", "gpx_path", "output_dir", "interval"}
AnonymizeParams == {"input_folder", "output_folder", "model_path", "conf"}
ProgressKeywords == {"progress_callback"}
CallAccepted(params, keywords) == keywords \subseteq params

\* folder sizes around the batch limit
Totals == {0, 1} \cup {k * BATCH_SIZE + d : k \in 1..MaxBatches, d \in {0, 1}}
\* num_batches, start_idx and end_idx of main.py lines 840-847
NumBatches_Floor(total) == total \div BATCH_SIZE
NumBatches(total) == (total + BATCH_SIZE - 1) \div BATCH_SIZE
BatchImages(batch_num, total) ==
    LET start_idx == batch_num * BATCH_SIZE
        end_idx == IF start_idx + BATCH_SIZE < total
                   THEN start_idx + BATCH_SIZE ELSE total
    IN  (start_idx + 1)..end_idx
\* the files one anonymize_images pass over the folder lists and writes:
\* images 1..total end in .jpg or .png, the next jpeg ones end in .jpeg
DirectPassOutputs(total, jpeg) == 1..(total + jpeg)

JobIdle ==
    /\ j_kind = "idle"
    /\ j_has_input = FALSE
    /\ j_method = "none"
    /\ j_videos = <<>>
    /\ j_total = 0
    /\ j_jpeg = 0
    /\ j_button = "normal"
    /\ j_pc = "idle"
    /\ j_video_idx = 0
    /\ j_batch_num = 0
    /\ j_processed = 0
    /\ j_temp = {}
    /\ j_outputs = {}
    /\ j_emitted = 0
    /\ j_callbacks = 0
    /\ j_error = "none"
    /\ j_after = <<>>

\* the GUI before the start button is pressed; each video carries whether a
\* GPX file exists for it
InitJobArgs ==
    /\ j_has_input \in BOOLEAN
    /\ \/ /\ j_kind = "extraction"
          /\ j_method \in {"Histogram", "GPS"}
          /\ j_videos \in SeqsUpTo([gpx : BOOLEAN], MaxVideos)
          /\ j_total = 0
          /\ j_jpeg = 0
       \/ /\ j_kind = "anonymization"
          /\ j_method = "none"
          /\ j_videos = <<>>
          /\ j_total \in Totals
          /\ j_jpeg \in 0..1
    /\ j_button = "normal"
    /\ j_pc = "ready"
    /\ j_video_idx = 0
    /\ j_batch_num = 0
    /\ j_processed = 0
    /\ j_temp = {}
    /\ j_outputs = {}
    /\ j_emitted = 0
    /\ j_callbacks = 0
    /\ j_error = "none"
    /\ j_after = <<>>

\* run_extraction_thread / run_anonymization_thread with their inputs set
JobStart ==
    /\ j_pc = "ready"
    /\ j_has_input
    /\ j_button' = "disabled"
    /\ j_pc' = "running"
    /\ UNCHANGED <<j_kind, j_has_input, j_method, j_videos, j_total, j_jpeg,
                   j_video_idx, j_batch_num, j_processed, j_temp, j_outputs,
                   j_emitted, j_callbacks, j_error, j_after>>
    /\ UNCHANGED notJ

\* main.py lines 354-356 and 818: no worker is started
JobStartRefused ==
    /\ j_pc = "ready"
    /\ ~j_has_input
    /\ j_pc' = "refused"
    /\ j_error' = IF j_kind = "extraction"
                  THEN "Missing inputs (Video or Location)." ELSE "none"
    /\ UNCHANGED <<j_kind, j_has_input, j_method, j_videos, j_total, j_jpeg,
                   j_button, j_video_idx, j_batch_num, j_processed, j_temp,
                   j_outputs, j_emitted, j_callbacks, j_after>>
    /\ UNCHANGED notJ

\* one pass of the loop of process_extraction (lines 378-434): neither
\* extractor's body holds a call of a callback
JobExtractVideo ==
    /\ j_kind = "extraction"
    /\ j_pc = "running"
    /\ j_video_idx < Len(j_videos)
    /\ LET calls == j_method = "Histogram" \/ j_videos[j_video_idx + 1].gpx
           params == IF j_method = "Histogram" THEN HistogramParams ELSE GpsParams
       IN  IF ~calls
           THEN /\ j_video_idx' = j_video_idx + 1
                /\ UNCHANGED <<j_pc, j_emitted, j_error, j_after>>
           ELSE IF CallAccepted(params, ProgressKeywords)
           THEN /\ \E n \in 0..MaxEmit : j_emitted' = j_emitted + n
                /\ j_video_idx' = j_video_idx + 1
                /\ UNCHANGED <<j_pc, j_error, j_after>>
           ELSE /\ j_error' = "TypeError"
                /\ j_pc' = "done"
                /\ j_after' = <<"showerror", "reset_extraction_ui">>
                /\ UNCHANGED <<j_video_idx, j_emitted>>
    /\ UNCHANGED <<j_kind, j_has_input, j_method, j_videos, j_total, j_jpeg,
                   j_button, j_batch_num, j_processed, j_temp, j_outputs,
                   j_callbacks>>
    /\ UNCHANGED notJ

\* line 435
JobExtractFinish ==
    /\ j_kind = "extraction"
    /\ j_pc = "running"
    /\ j_video_idx = Len(j_videos)
    /\ j_pc' = "done"
    /\ j_after' = <<"finish_extraction">>
    /\ UNCHANGED <<j_kind, j_has_input, j_method, j_videos, j_total, j_jpeg,
                   j_button, j_video_idx, j_batch_num, j_processed, j_temp,
                   j_outputs, j_emitted, j_callbacks, j_error>>
    /\ UNCHANGED notJ

\* process_anonymization with at most BATCH_SIZE images (lines 889-900)
JobAnonDirect ==
    /\ j_kind = "anonymization"
    /\ j_pc = "running"
    /\ ~(j_total > BATCH_SIZE)
    /\ IF CallAccepted(AnonymizeParams, ProgressKeywords)
       THEN /\ j_outputs' = DirectPassOutputs(j_total, j_jpeg)
            /\ j_after' = <<"finish_anonymization_batch", "reset_anon_ui">>
            /\ UNCHANGED j_error
       ELSE /\ j_error' = "TypeError"
            /\ j_after' = <<"showerror", "reset_anon_ui">>
            /\ UNCHANGED j_outputs
    /\ j_pc' = "done"
    /\ UNCHANGED <<j_kind, j_has_input, j_method, j_videos, j_total, j_jpeg,
                   j_button, j_video_idx, j_batch_num, j_processed, j_temp,
                   j_emitted, j_callbacks>>
    /\ UNCHANGED notJ

\* lines 838-846: the batched path is entered
JobAnonBatched ==
    /\ j_kind = "anonymization"
    /\ j_pc = "running"
    /\ j_total > BATCH_SIZE
    /\ j_pc' = "batching"
    /\ j_batch_num' = 0
    /\ j_processed' = 0
    /\ UNCHANGED <<j_kind, j_has_input, j_method, j_videos, j_total, j_jpeg,
                   j_button, j_video_idx, j_temp, j_outputs, j_emitted,
                   j_callbacks, j_error, j_after>>
    /\ UNCHANGED notJ

\* one pass of the batch loop (lines 848-885), or its exit (line 887)
JobAnonBatch ==
    /\ j_kind = "anonymization"
    /\ j_pc = "batching"
    /\ IF j_batch_num < NumBatches(j_total)
       THEN IF CallAccepted(AnonymizeParams, ProgressKeywords)
            THEN \/ /\ j_outputs' = j_outputs \cup BatchImages(j_batch_num, j_total)
                    /\ j_processed' =
                           j_processed + Cardinality(BatchImages(j_batch_num, j_total))
                    /\ j_batch_num' = j_batch_num + 1
                    /\ UNCHANGED <<j_pc, j_temp, j_error, j_after>>
                 \* lines 877-879: the batch returned an error
                 \/ /\ j_error' = "Batch failed"
                    /\ j_pc' = "done"
                    /\ j_after' = <<"showerror", "reset_anon_ui">>
                    /\ UNCHANGED <<j_outputs, j_processed, j_batch_num, j_temp>>
            ELSE /\ j_temp' = j_temp \cup {j_batch_num}
                 /\ j_error' = "TypeError"
                 /\ j_pc' = "done"
                 /\ j_after' = <<"showerror", "reset_anon_ui">>
                 /\ UNCHANGED <<j_outputs, j_processed, j_batch_num>>
       ELSE /\ j_pc' = "done"
            /\ j_after' = <<"finish_anonymization_batch", "reset_anon_ui">>
            /\ UNCHANGED <<j_outputs, j_processed, j_batch_num, j_temp, j_error>>
    /\ UNCHANGED <<j_kind, j_has_input, j_method, j_videos, j_total, j_jpeg,
                   j_button, j_video_idx, j_emitted, j_callbacks>>
    /\ UNCHANGED notJ

\* the main loop runs the next function handed to root.after
JobUiRun ==
    /\ j_after # <<>>
    /\ j_after' = Tail(j_after)
    /\ j_button' =
          IF Head(j_after) \in {"finish_extraction", "reset_extraction_ui",
                                "reset_anon_ui"}
          THEN "normal" ELSE j_button
    /\ UNCHANGED <<j_kind, j_has_input, j_method, j_videos, j_total, j_jpeg,
                   j_pc, j_video_idx, j_batch_num, j_processed, j_temp,
                   j_outputs, j_emitted, j_callbacks, j_error>>
    /\ UNCHANGED notJ

NextJob ==
    \/ JobStart
    \/ JobStartRefused
    \/ JobExtractVideo
    \/ JobExtractFinish
    \/ JobAnonDirect
    \/ JobAnonBatched
    \/ JobAnonBatch
    \/ JobUiRun

\* ------------------------------------------------------- anonymize, by pixel
\* a small image; integer regions reaching up to MaxOver past either border
BlurSizes == {[w |-> 3, h |-> 2]}
Spans(n) == {<<lo, hi>> \in ((0 - MaxOver)..(n + MaxOver)) \X ((0 - MaxOver)..(n + MaxOver)) : lo <= hi}
BlurRegions(size) ==
    {[x_min |-> xs[1], y_min |-> ys[1], x_max |-> xs[2], y_max |-> ys[2]] :
        xs \in Spans(size.w), ys \in Spans(size.h)}
\* the pixels <<x, y>> of the image that lie inside the region
BoxPixels(region, size) ==
    {p \in (0..(size.w - 1)) \X (0..(size.h - 1)) :
        /\ region.x_min <= p[1] /\ p[1] < region.x_max
        /\ region.y_min <= p[2] /\ p[2] < region.y_max}
NoRegion == [x_min |-> 0, y_min |-> 0, x_max |-> 0, y_max |-> 0]

BlurIdle ==
    /\ b_size = [w |-> 0, h |-> 0]
    /\ b_pc = "idle"
    /\ b_k = 0
    /\ b_region = NoRegion
    /\ b_changed = {}
    /\ b_inside = {}

InitBlurArgs ==
    /\ b_size \in BlurSizes
    /\ b_pc = "loop"
    /\ b_k = 0
    /\ b_region = NoRegion
    /\ b_changed = {}
    /\ b_inside = {}

\* lines 29-34 for the next region of the list: the roi is blurred and
\* written back in place
AnonymizeRegion ==
    /\ b_pc = "loop"
    /\ b_k < MaxRegions
    /\ \E region \in BlurRegions(b_size) :
          /\ Roi(region, b_size) # {}
          /\ b_region' = region
          /\ b_changed' = b_changed \cup Roi(region, b_size)
          /\ b_inside' = b_inside \cup BoxPixels(region, b_size)
    /\ b_k' = b_k + 1
    /\ UNCHANGED <<b_size, b_pc>>
    /\ UNCHANGED notB

\* lines 29-33 for a region whose roi is empty: cv2.GaussianBlur raises
AnonymizeRegionRaises ==
    /\ b_pc = "loop"
    /\ b_k < MaxRegions
    /\ \E region \in BlurRegions(b_size) :
          /\ Roi(region, b_size) = {}
          /\ b_region' = region
          /\ b_inside' = b_inside \cup BoxPixels(region, b_size)
    /\ b_k' = b_k + 1
    /\ b_pc' = "raised"
    /\ UNCHANGED <<b_size, b_changed>>
    /\ UNCHANGED notB

\* line 35: the list is at its end
AnonymizeReturn ==
    /\ b_pc = "loop"
    /\ b_pc' = "returned"
    /\ UNCHANGED <<b_size, b_k, b_region, b_changed, b_inside>>
    /\ UNCHANGED notB

NextBlur ==
    \/ AnonymizeRegion
    \/ AnonymizeRegionRaises
    \/ AnonymizeReturn

\* ------------------------------------------------- pre-annotation workers
DetectIdle ==
    /\ d_open = FALSE
    /\ d_has_input = FALSE
    /\ d_clicks = 0
    /\ d_workers = 0
    /\ d_ended = 0

\* the annotation tab before its button is pressed
InitDetectArgs ==
    /\ d_open = TRUE
    /\ d_has_input \in BOOLEAN
    /\ d_clicks = 0
    /\ d_workers = 0
    /\ d_ended = 0

\* run_pre_annotation with a folder chosen: a worker is started; the
\* handler changes no button state
DetectStart ==
    /\ d_open
    /\ d_clicks < MaxClicks
    /\ d_has_input
    /\ d_clicks' = d_clicks + 1
    /\ d_workers' = d_workers + 1
    /\ UNCHANGED <<d_open, d_has_input, d_ended>>
    /\ UNCHANGED notD

\* line 1401: no folder chosen
DetectStartRefused ==
    /\ d_open
    /\ d_clicks < MaxClicks
    /\ ~d_has_input
    /\ d_clicks' = d_clicks + 1
    /\ UNCHANGED <<d_open, d_has_input, d_workers, d_ended>>
    /\ UNCHANGED notD

\* process_detection has run to its end (lines 1406-1430)
DetectWorkerEnd ==
    /\ d_workers > 0
    /\ d_workers' = d_workers - 1
    /\ d_ended' = d_ended + 1
    /\ UNCHANGED <<d_open, d_has_input, d_clicks>>
    /\ UNCHANGED notD

NextDetect ==
    \/ DetectStart
    \/ DetectStartRefused
    \/ DetectWorkerEnd

\* -------------------------------------------------------------- review tab
\* the sorted .jpg/.png names of a folder of n images
Listing(n) == [k \in 1..n |-> k]

ReviewIdle ==
    /\ r_open = FALSE
    /\ anonymized_images = <<>>
    /\ current_img_idx = <<>>
    /\ r_op = "none"
    /\ r_prev_idx = <<>>
    /\ r_ops = 0

\* the tab after construction: the list is empty (line 33) and the
\* attribute current_img_idx does not exist yet (<<>>); line 814 creates it
InitReviewArgs ==
    /\ r_open = TRUE
    /\ anonymized_images = <<>>
    /\ current_img_idx = <<>>
    /\ r_op = "none"
    /\ r_prev_idx = <<>>
    /\ r_ops = 0

\* a handler of the tab runs; r_op and r_prev_idx record which one and the
\* index it found
Handler(op) ==
    /\ r_open
    /\ r_ops < MaxOps
    /\ r_ops' = r_ops + 1
    /\ r_op' = op
    /\ r_prev_idx' = current_img_idx
    /\ UNCHANGED r_open
    /\ UNCHANGED notR

\* load_anon_folder on an existing folder (lines 808-815)
load_anon_folder ==
    /\ Handler("load")
    /\ \E n \in 0..MaxReview : anonymized_images' = Listing(n)
    /\ current_img_idx' = <<0>>

\* lines 810 and 812: no folder chosen, or the folder does not exist
load_anon_folder_Returns ==
    /\ Handler("load refused")
    /\ UNCHANGED <<anonymized_images, current_img_idx>>

\* lines 1113-1116 (first without the test of line 1114); reading the
\* attribute before any load raises AttributeError
next_anon_image_Unguarded ==
    /\ Handler("next")
    /\ current_img_idx' =
          IF current_img_idx # <<>>
          THEN <<current_img_idx[1] + 1>> ELSE current_img_idx
    /\ UNCHANGED anonymized_images
next_anon_image ==
    /\ Handler("next")
    /\ current_img_idx' =
          IF /\ current_img_idx # <<>>
             /\ current_img_idx[1] < Len(anonymized_images) - 1
          THEN <<current_img_idx[1] + 1>> ELSE current_img_idx
    /\ UNCHANGED anonymized_images

\* lines 1108-1111
prev_anon_image ==
    /\ Handler("prev")
    /\ current_img_idx' =
          IF current_img_idx # <<>> /\ current_img_idx[1] > 0
          THEN <<current_img_idx[1] - 1>> ELSE current_img_idx
    /\ UNCHANGED anonymized_images

\* lines 1075-1106; line 1078 raises before any load (AttributeError) and
\* with an empty list (IndexError)
save_and_next_anon ==
    /\ Handler("save")
    /\ current_img_idx' =
          IF /\ current_img_idx # <<>>
             /\ anonymized_images # <<>>
             /\ current_img_idx[1] < Len(anonymized_images) - 1
          THEN <<current_img_idx[1] + 1>> ELSE current_img_idx
    /\ UNCHANGED anonymized_images

NextReview ==
    \/ load_anon_folder
    \/ load_anon_folder_Returns
    \/ next_anon_image
    \/ prev_anon_image
    \/ save_and_next_anon

\* ------------------------------------------------------------ specification
\* one call of one of the two extractors
InitHist == InitHistArgs /\ GpsIdle /\ AnonIdle /\ BoxIdle /\ JobIdle /\ BlurIdle /\ DetectIdle /\ ReviewIdle
InitGps == InitGpsArgs /\ HistIdle /\ AnonIdle /\ BoxIdle /\ JobIdle /\ BlurIdle /\ DetectIdle /\ ReviewIdle
Init == InitHist \/ InitGps
Next == NextHist \/ NextGps
Spec == Init /\ [][Next]_vars

\* calls of anonymize_images on one input and one output folder
InitAnon == InitAnonArgs /\ HistIdle /\ GpsIdle /\ BoxIdle /\ JobIdle /\ BlurIdle /\ DetectIdle /\ ReviewIdle
SpecAnon == InitAnon /\ [][NextAnon]_vars

\* one box converted there and back
InitBox == InitBoxArgs /\ HistIdle /\ GpsIdle /\ AnonIdle /\ JobIdle /\ BlurIdle /\ DetectIdle /\ ReviewIdle
SpecBox == InitBox /\ [][NextBox]_vars

\* one job started from the GUI
InitGui ==
    \/ InitJobArgs /\ HistIdle /\ GpsIdle /\ AnonIdle /\ BoxIdle /\ BlurIdle /\ DetectIdle /\ ReviewIdle
    \/ InitDetectArgs /\ HistIdle /\ GpsIdle /\ AnonIdle /\ BoxIdle /\ BlurIdle /\ JobIdle /\ ReviewIdle
NextGui == NextJob \/ NextDetect
SpecGui == InitGui /\ [][NextGui]_vars

\* one call of anonymize
InitBlur == InitBlurArgs /\ HistIdle /\ GpsIdle /\ AnonIdle /\ BoxIdle /\ JobIdle /\ DetectIdle /\ ReviewIdle
SpecBlur == InitBlur /\ [][NextBlur]_vars

\* the handlers of the review tab in any order
InitReview ==
    InitReviewArgs /\ HistIdle /\ GpsIdle /\ AnonIdle /\ BoxIdle /\ JobIdle /\ BlurIdle /\ DetectIdle
SpecReview == InitReview /\ [][NextReview]_vars

\* ------------------------------------------------------------------ claims
\* what a step of the scan did
EmittedNow == Len(h_saved') = Len(h_saved) + 1
\* position in the video of the last selected frame; the first frame (0) at first
LastSelectedPos == IF h_saved = <<>> THEN 0 ELSE h_saved[Len(h_saved)].frame

\* C1: any two frames written by extract_histogram_based have positions in the
\* video that differ by at least min_frame_gap.
C1_EmittedAtLeastGapApart ==
    \A i, j \in 1..Len(h_saved) :
        i < j => h_saved[j].frame - h_saved[i].frame >= min_frame_gap
C1_Witness ==
    /\ Len(h_saved) >= 2
    /\ min_frame_gap >= 2
    /\ h_saved[2].frame - h_saved[1].frame = min_frame_gap

\* C2 (as claimed): a frame after the first is written iff its distance to the
\* reference exceeds the threshold and its position in the video minus the
\* position of the last selected frame (0 at first) is at least min_frame_gap.
C2_EmitIffOnTruePositions ==
    [][Scanning =>
        (EmittedNow <=>
            /\ compareHist(prev_hist, CurrHist) > h_threshold
            /\ h_cap_pos - LastSelectedPos >= min_frame_gap)]_vars

\* C3 (as claimed): with threshold 0 every frame that satisfies the gap
\* condition is written, whatever its content.
C3_ZeroThresholdEmitsAllBeyondGap ==
    [][(Scanning /\ h_threshold = 0
            /\ frame_counter - last_keyframe_idx >= min_frame_gap)
        => EmittedNow]_vars
\* C3 (amended): with threshold 0 a frame is written iff it satisfies the gap
\* condition and its distance to the reference is not zero.
C3_ZeroThresholdEmitsChangedBeyondGap ==
    [][(Scanning /\ h_threshold = 0) =>
        (EmittedNow <=>
            /\ frame_counter - last_keyframe_idx >= min_frame_gap
            /\ compareHist(prev_hist, CurrHist) # 0)]_vars
C3_Witness ==
    /\ h_threshold = 0
    /\ h_pc = "done"
    /\ Len(h_saved) >= 1
    /\ \E p \in (min_frame_gap + 1)..(Len(h_video) - 1) :
          /\ h_video[p + 1] = h_video[1]
          /\ \A q \in 1..Len(h_saved) : h_saved[q].frame > p

\* C4 (as claimed): with threshold >= 1.0 the first frame is written and no
\* other frame is.
C4_MaxThresholdEmitsFirstOnly ==
    (h_pc = "done" /\ h_threshold >= 10 /\ Len(h_video) > 0)
        => (Len(h_ret.frames) = 1 /\ h_ret.frames[1].frame = 0)
\* C4 (amended): with threshold >= 1.0 no frame at all is written; the first
\* frame is only the reference.
C4_MaxThresholdEmitsNothing ==
    h_threshold >= 10 => (h_saved = <<>> /\ h_ret.frames = <<>>)
C4_Witness ==
    /\ h_threshold = 10
    /\ h_pc = "done"
    /\ ~h_ret.isNone
    /\ \E p \in 2..Len(h_video) :
          /\ compareHist(h_video[1], h_video[p]) = 10
          /\ p - 1 > min_frame_gap

\* C5: ScenarioLen identical frames, then one frame at distance 0.9, threshold
\* 0.5 and min_frame_gap 1: exactly one frame is written, the changed one.
C5_ScenarioEmitsChangedFrameOnly ==
    (h_pc = "done" /\ h_video = ScenarioVideo /\ h_threshold = 5
        /\ min_frame_gap = 1)
        => (Len(h_ret.frames) = 1 /\ h_ret.frames[1].frame = ScenarioLen)
C5_Witness ==
    /\ h_pc = "done"
    /\ h_video = ScenarioVideo
    /\ h_threshold = 5
    /\ min_frame_gap = 1
    /\ compareHist(h_video[1], h_video[ScenarioLen + 1]) = 9
    /\ ~h_ret.isNone

\* the table and the queries of lines 37-46 exist
QueriesBuilt ==
    \/ g_pc \in {"table", "loop"}
    \/ g_pc = "done" /\ distances # <<>>
TotalDistance == distances[Len(distances)]
\* fps * (query_times[k] - query_times[1]) of iteration k, as NumOf / DenOf
NumOf(k) == ScaledNum(g_fps, query_times[k], query_times[1])
DenOf(k) == ScaledDen(query_times[k], query_times[1])
NonDecreasingTimes ==
    \A i, j \in 1..Len(g_points) :
        i < j => (/\ g_points[i].timed
                  /\ g_points[j].timed
                  /\ g_points[i].time <= g_points[j].time)

\* C6: for total distance > 0 and interval > 0 the query distances are exactly
\* the multiples k * interval, k = 0, 1, ..., that are strictly less than the
\* total distance, in non-decreasing order, none missing.
C6_QueryDistancesAreMultiplesBelowTotal ==
    (QueriesBuilt /\ TotalDistance > 0 /\ g_interval > 0) =>
        /\ \A k \in 1..Len(query_distances) :
              /\ query_distances[k] = (k - 1) * g_interval
              /\ query_distances[k] < TotalDistance
        /\ \A k \in 2..Len(query_distances) :
              query_distances[k - 1] <= query_distances[k]
        /\ Len(query_distances) * g_interval >= TotalDistance
C6_Witness ==
    /\ QueriesBuilt
    /\ g_interval = 1000
    /\ TotalDistance = 3000
    /\ Len(query_distances) = 3

\* C7 (as claimed): every query instant is mapped to the nearest frame index,
\* round(fps * (instant - first_instant)).
C7_FrameNumIsNearest ==
    \A k \in 1..Len(g_frame_nums) :
        LET e == 2 * (NumOf(k) - g_frame_nums[k] * DenOf(k))
        IN  -DenOf(k) <= e /\ e <= DenOf(k)
\* C7 (amended): every query instant is mapped to fps * (instant -
\* first_instant) truncated toward zero.
C7_FrameNumIsTruncated ==
    \A k \in 1..Len(g_frame_nums) :
        LET f == g_frame_nums[k]
        IN  IF NumOf(k) >= 0
            THEN f * DenOf(k) <= NumOf(k) /\ NumOf(k) < (f + 1) * DenOf(k)
            ELSE (f - 1) * DenOf(k) < NumOf(k) /\ NumOf(k) <= f * DenOf(k)
C7_Witness ==
    \E k \in 1..Len(g_frame_nums) :
        /\ NumOf(k) > 0
        /\ 2 * (NumOf(k) - g_frame_nums[k] * DenOf(k)) > DenOf(k)

\* C8: with non-decreasing waypoint timestamps, of consecutive queries with
\* the same frame index only the first is sought, and the frame indices
\* sought are strictly increasing.
C8_SeeksStrictlyIncreasing ==
    NonDecreasingTimes =>
        /\ \A i, j \in 1..Len(g_seeks) : i < j => g_seeks[i] < g_seeks[j]
        /\ Len(g_seeks) =
              Cardinality({k \in 1..Len(g_frame_nums) :
                              k = 1 \/ g_frame_nums[k] # g_frame_nums[k - 1]})
C8_Witness ==
    /\ NonDecreasingTimes
    /\ g_pc = "done"
    /\ Len(g_seeks) >= 2
    /\ \E k \in 2..(Len(g_frame_nums) - 1) :
          /\ g_frame_nums[k] = g_frame_nums[k - 1]
          /\ g_frame_nums[k] # g_frame_nums[k + 1]

\* C9: extract_gps_based returns an error (None, message) for a track with no
\* waypoint and for a track of total distance zero.
C9_ErrorOnEmptyOrZeroDistanceTrack ==
    (/\ g_pc = "done"
     /\ g_parse_ok
     /\ \/ g_points = <<>>
        \/ CumulativeDistance(g_points, Len(g_points)) = 0)
        => (g_ret.isNone /\ g_ret.err # "None")

\* C10: neither extractor returns an empty list of paths together with no
\* error.
C10_NoEmptyListWithoutError ==
    /\ h_pc = "done" =>
          ~(~h_ret.isNone /\ h_ret.frames = <<>> /\ h_ret.err = "None")
    /\ g_pc = "done" =>
          ~(~g_ret.isNone /\ g_ret.frames = <<>> /\ g_ret.err = "None")

\* C11: the files written in one run of either extractor carry the sequence
\* numbers 0, 1, ..., n-1 in the order written (the count of frames written
\* so far), without gaps.
C11_FilesNumberedWithoutGaps ==
    /\ \A k \in 1..Len(h_saved) : h_saved[k].seq = k - 1
    /\ \A k \in 1..Len(g_saved) : g_saved[k].seq = k - 1

\* C13: on every exit of either extractor after the capture was opened
\* (return, error return, exception) the capture has been released.
C13_CaptureReleasedOnExit ==
    /\ h_pc \in {"done", "raised"} => ~h_cap_open
    /\ g_pc \in {"done", "raised"} => ~g_cap_open

\* anonymize_images has returned without error
AnonReturnedOk == a_pc = "done" /\ a_ret.err = "None"
ReadableNames == {n \in FileNames : a_files[n].readable}
VocEq(a, b) ==
    /\ REq(a.x_min, b.x_min)
    /\ REq(a.y_min, b.y_min)
    /\ REq(a.x_max, b.x_max)
    /\ REq(a.y_max, b.y_max)
\* the rounded boxes of image n, as the loop of line 163 reads them
RoundedBoxesOf(n) ==
    IF n \in DOMAIN a_sidecar
    THEN [k \in 1..Len(a_sidecar[n]) |-> RoundedBox(a_sidecar[n][k])]
    ELSE <<>>
InsideImage(r, size) ==
    /\ 0 <= r.x_min /\ r.x_min <= r.x_max /\ r.x_max <= size.w
    /\ 0 <= r.y_min /\ r.y_min <= r.y_max /\ r.y_max <= size.h
ZeroArea(r) == r.x_min = r.x_max \/ r.y_min = r.y_max

\* C14: after anonymize_images returns without error the output folder
\* (empty before) holds exactly one image per readable input image, under the
\* same name, and an image without detections is written with unchanged
\* pixels.
C14_OneOutputPerReadableImage ==
    AnonReturnedOk =>
        /\ DOMAIN a_out = ReadableNames
        /\ \A n \in ReadableNames :
              a_files[n].dets = <<>> => a_out[n].blurred = {}

\* C15: after each run the sidecar of an image holds exactly the boxes
\* detected in that run: a record of an earlier run is replaced, not
\* appended to.
C15_SidecarReplacedEachRun ==
    AnonReturnedOk =>
        \A n \in DOMAIN a_sidecar : Len(a_sidecar[n]) = Len(a_files[n].dets)

\* C16: the detections of every image are converted to pixel boxes with that
\* image's own width and height.
C16_ConvertedWithOwnSize ==
    a_pc \in {"loop", "done"} =>
        \A n \in DOMAIN a_sidecar :
            \A k \in 1..Len(a_files[n].dets) :
                k <= Len(a_sidecar[n]) =>
                    VocEq(a_sidecar[n][k],
                          yolo_to_voc(a_files[n].dets[k], a_files[n].size))

\* C17: an unreadable file, wherever it stands in the folder listing, is
\* skipped on its own: the call goes through all the files and returns no
\* error.
C17_UnreadableFileOnlySkipped ==
    (/\ a_pc = "done"
     /\ a_ret.err \notin {"Error loading model", "Error during detection"}
     /\ \E n \in FileNames : a_files[n].readable
     /\ \E n \in FileNames : ~a_files[n].readable)
        => (a_ret.err = "None" /\ a_i = Len(a_files))

\* C20: a box whose rounded region has zero area changes no pixel, and the
\* image is still written and counted.
C20_ZeroAreaBoxIsNoOp ==
    AnonReturnedOk =>
        \A n \in ReadableNames :
            LET boxes == RoundedBoxesOf(n)
            IN  (/\ \A k \in 1..Len(boxes) : InsideImage(boxes[k], a_files[n].size)
                 /\ \E k \in 1..Len(boxes) : ZeroArea(boxes[k]))
                => /\ n \in a_written
                   /\ a_out[n].blurred =
                         UNION {Roi(boxes[k], a_files[n].size) :
                                   k \in {j \in 1..Len(boxes) : ~ZeroArea(boxes[j])}}

BoxEq(a, b) ==
    /\ REq(a.cx, b.cx)
    /\ REq(a.cy, b.cy)
    /\ REq(a.w, b.w)
    /\ REq(a.h, b.h)

\* C19: for every image size and every normalized box with coordinates in
\* [0, 1], yolo_to_voc followed by the normalization of the annotation save
\* path gives the box back, and normalization followed by yolo_to_voc gives
\* the pixel box back.
C19_ConversionRoundTrips ==
    t_pc = "done" =>
        IF t_dir = "yolo" THEN BoxEq(t_out, t_in) ELSE VocEq(t_out, t_in)
C19_Witness ==
    /\ t_pc = "done"
    /\ t_dir = "yolo"
    /\ t_size.w # t_size.h
    /\ t_in.w.num # 0 /\ t_in.h.num # 0
    /\ ~REq(t_mid.x_min, Rat(RRound(t_mid.x_min), 1))
    /\ t_mid.y_min.num < 0

JobOver == j_pc = "done" /\ j_after = <<>>

\* C12: a job started from the GUI with a progress callback runs to
\* completion, and the callback has been invoked once per item emitted.
C12_JobCompletesWithCallbackPerItem ==
    JobOver => (j_error = "none" /\ j_callbacks = j_emitted)

\* C18: with more than BATCH_SIZE images, the batched path of
\* process_anonymization leaves the same output image files as a single
\* anonymize_images pass over the same folder.
C18_BatchedEqualsDirectPass ==
    (JobOver /\ j_kind = "anonymization" /\ j_total > BATCH_SIZE) =>
        j_outputs = DirectPassOutputs(j_total, j_jpeg)

\* C21: no call of extract_histogram_based or extract_gps_based ends by
\* raising an exception; a bad input ends in a returned (None, message).
C21_NoCallRaises ==
    /\ h_pc # "raised"
    /\ g_pc # "raised"

\* C23: in the histogram scan a step that emits a frame makes that frame's
\* histogram the reference and sets last_keyframe_idx; every other step
\* leaves both unchanged, so the reference is always the histogram of the
\* first frame or of the most recently emitted frame.
C23_ReferenceChangesOnlyOnEmit ==
    [][h_pc = "scan" =>
          /\ IF EmittedNow
             THEN prev_hist' = CurrHist /\ last_keyframe_idx' = frame_counter
             ELSE prev_hist' = prev_hist /\ last_keyframe_idx' = last_keyframe_idx
          /\ prev_hist' = h_video[LastSelectedPos' + 1]]_vars
C23_Witness ==
    /\ h_pc = "scan"
    /\ h_saved # <<>>
    /\ h_cap_pos > LastSelectedPos + 1
    /\ h_video[h_cap_pos] # prev_hist

TableBuilt == g_parse_ok /\ g_points # <<>> /\ g_pc \notin {"idle", "start"}

\* C26: the cumulative distance table of extract_gps_based has one entry per
\* waypoint, starts at distance 0, never decreases, and its i-th timestamp is
\* the i-th waypoint's time.
C26_TableHasOneEntryPerWaypoint ==
    TableBuilt =>
        /\ Len(distances) = Len(g_points)
        /\ Len(timestamps) = Len(g_points)
        /\ distances[1] = 0
        /\ \A i \in 2..Len(distances) : distances[i - 1] <= distances[i]
        /\ \A i \in 1..Len(timestamps) : timestamps[i] = g_points[i].time
C26_Witness ==
    /\ TableBuilt
    /\ Len(g_points) = 3
    /\ g_points[2].pos > g_points[3].pos
    /\ distances[2] < distances[3]
    /\ timestamps[2] # timestamps[3]

C28_OnlyPixelsInsideBoxesChange ==
    b_changed \subseteq b_inside

\* the batches of a folder of total images, as sets of list positions
BatchesPartition(total) ==
    LET n == NumBatches(total)
        batch(b) == BatchImages(b, total)
    IN  /\ (n - 1) * BATCH_SIZE < total /\ total <= n * BATCH_SIZE
        /\ \A i \in 1..total : Cardinality({b \in 0..(n - 1) : i \in batch(b)}) = 1
        /\ \A b \in 0..(n - 1) :
              /\ batch(b) # {}
              /\ \A i \in batch(b) : b * BATCH_SIZE < i /\ i <= (b + 1) * BATCH_SIZE
              /\ b < n - 1 => Cardinality(batch(b)) = BATCH_SIZE

\* C24: with more than BATCH_SIZE images process_anonymization takes the
\* batched path and its batches partition the image list into contiguous
\* slices of BATCH_SIZE images (the last possibly shorter, none empty),
\* ceil(total / BATCH_SIZE) in number; otherwise it takes the direct path.
C24_BatchesPartitionTheList ==
    [][(j_kind = "anonymization" /\ j_pc = "running") =>
          IF j_total > BATCH_SIZE
          THEN j_pc' = "batching" /\ BatchesPartition(j_total)
          ELSE j_pc' = "done" /\ j_temp' = {}]_vars
C24_Witness ==
    /\ j_pc = "batching"
    /\ NumBatches(j_total) = 3
    /\ Cardinality(BatchImages(2, j_total)) = 1

BatchedJobOver == JobOver /\ j_kind = "anonymization" /\ j_total > BATCH_SIZE

\* C22: in the batched path a failure in one batch is recoverable: the
\* images of every other batch are still processed and written.
C22_OtherBatchesStillProcessed ==
    (BatchedJobOver /\ j_error # "none") =>
        \A b \in 0..(NumBatches(j_total) - 1) :
            b # j_batch_num => BatchImages(b, j_total) \subseteq j_outputs

\* C27: when process_anonymization has finished, on any path, no
\* _temp_batch_N folder it created remains in the input folder.
C27_NoTempBatchFolderRemains ==
    (JobOver /\ j_kind = "anonymization") => j_temp = {}

WorkerRunning == j_pc \in {"running", "batching"}

\* C29: the GUI never has two process_detection workers (nor two
\* process_anonymization workers) running at once; the start button of a job
\* is disabled while its worker runs and enabled again once it is over.
C29_OneWorkerPerJobKind ==
    /\ d_workers <= 1
    /\ WorkerRunning => j_button = "disabled"
    /\ JobOver => j_button = "normal"

LastIdx == Len(anonymized_images) - 1

\* C30: after any sequence of load_anon_folder, next_anon_image,
\* prev_anon_image and save_and_next_anon with a non-empty list loaded,
\* 0 <= current_img_idx < len(anonymized_images); next and save at the last
\* image and prev at the first leave the index unchanged.
C30_IndexStaysInsideList ==
    anonymized_images # <<>> =>
        /\ current_img_idx # <<>>
        /\ 0 <= current_img_idx[1] /\ current_img_idx[1] <= LastIdx
        /\ (r_op \in {"next", "save"} /\ r_prev_idx = <<LastIdx>>) =>
              current_img_idx = r_prev_idx
        /\ (r_op = "prev" /\ r_prev_idx = <<0>>) => current_img_idx = <<0>>
C30_Witness ==
    /\ Len(anonymized_images) = 3
    /\ r_op = "save"
    /\ r_prev_idx = <<LastIdx>>
    /\ current_img_idx = <<LastIdx>>

====
